---- MODULE Spec2Model ----
(***************************************************************************)
(* EasyLead: the lead retrieval service (findBusinessLeads, quickFallback, *)
(* calculateDistance) and the search handler of the dashboard              *)
(* (performSearch in App.tsx).                                             *)
(*                                                                         *)
(* The repository holds four revisions of the retrieval service:           *)
(*   "services"  src/services/businessService.ts (the one App.tsx imports) *)
(*   "part_000"  src/unnamed/part_000                                      *)
(*   "part_001"  src/unnamed/part_001                                      *)
(*   "leadtable" src/components/LeadTable.tsx, lines 166-320               *)
(* The variable `variant` says which of them a behaviour runs.             *)
(*                                                                         *)
(* JavaScript values are records [t, n, s]: t is the type tag ("undef",    *)
(* "null", "num", "nan", "str"), n the number, s the string as a sequence  *)
(* of one-character strings.  Numbers are integers; the haversine distance *)
(* is kept symbolic (see calculateDistance).                               *)
(***************************************************************************)
EXTENDS Integers, Sequences, FiniteSets, TLC

VARIABLES
    variant,      \* which revision of the service runs
    apiKey,       \* process.env.API_KEY
    userCoords,   \* App state userCoords (null or {lat, lng})
    loading,      \* App state loading
    leads,        \* App state leads (the displayed list)
    history,      \* App state history
    storage,      \* localStorage[STORAGE_KEYS.HISTORY]
    lastAlert,    \* the last alert() shown
    pc,           \* position of the App and of the search in flight
    req,          \* the query and the userCoords captured by performSearch
    primIssued,   \* primary generateContent calls issued by this search
    fbIssued,     \* fallback generateContent calls issued by this search
    primOut,      \* what the primary request produced
    fbOut,        \* what the fallback request produced
    result,       \* settlement of the findBusinessLeads promise
    pending,      \* `processed`, held by the setTimeout callback
    timers,       \* the interval timers and what the two refs point at
    effectDue,    \* the effect on [loading] has yet to run for a change
    nPc,          \* normalisation harness: position
    nIn,          \* normalisation harness: raw record, index, clock
    nOut          \* normalisation harness: the lead produced

vars == <<variant, apiKey, userCoords, loading, leads, history, storage,
          lastAlert, pc, req, primIssued, fbIssued, primOut, fbOut, result,
          pending, timers, effectDue, nPc, nIn, nOut>>

(***************************************************************************)
(* Bounds                                                                  *)
(***************************************************************************)
MaxBatch == 2

(***************************************************************************)
(* JavaScript values                                                       *)
(***************************************************************************)
JsUndef == [t |-> "undef", n |-> 0, s |-> <<>>]

JsNull == [t |-> "null", n |-> 0, s |-> <<>>]

JsNaN == [t |-> "nan", n |-> 0, s |-> <<>>]

JsNum(k) == [t |-> "num", n |-> k, s |-> <<>>]

JsStr(cs) == [t |-> "str", n |-> 0, s |-> cs]

\* true is JsBool(1), false is JsBool(0)
JsBool(b) == [t |-> "bool", n |-> b, s |-> <<>>]

\* a plain object such as {}: only its being one matters
JsObj == [t |-> "obj", n |-> 0, s |-> <<>>]

\* ToBoolean: undefined, null, NaN, 0, "" and false are falsy
Truthy(v) ==
    CASE v.t = "num" -> v.n # 0
      [] v.t = "str" -> v.s # <<>>
      [] v.t = "bool" -> v.n # 0
      [] v.t = "obj" -> TRUE
      [] OTHER -> FALSE

\* a || b
JsOr(a, b) == IF Truthy(a) THEN a ELSE b

IsDigit(c) == c \in {"0", "1", "2", "3", "4", "5", "6", "7", "8", "9"}

IsSpace(c) == c \in {" "}

RECURSIVE TrimLeft(_)
TrimLeft(cs) ==
    IF cs # <<>> /\ IsSpace(Head(cs)) THEN TrimLeft(Tail(cs)) ELSE cs

RECURSIVE TrimRight(_)
TrimRight(cs) ==
    IF cs # <<>> /\ IsSpace(cs[Len(cs)])
    THEN TrimRight(SubSeq(cs, 1, Len(cs) - 1))
    ELSE cs

\* String.prototype.trim
Trim(cs) == TrimRight(TrimLeft(cs))

LowerChar(c) ==
    CASE c = "A" -> "a" [] c = "D" -> "d" [] c = "E" -> "e"
      [] c = "H" -> "h" [] c = "I" -> "i" [] c = "L" -> "l"
      [] c = "N" -> "n" [] c = "U" -> "u"
      [] OTHER -> c

\* String.prototype.toLowerCase
ToLower(cs) == [i \in 1..Len(cs) |-> LowerChar(cs[i])]

\* phone.replace(/[^0-9]/g, '')
DigitsOf(cs) == SelectSeq(cs, IsDigit)

\* String.prototype.includes
Includes(cs, sub) ==
    \E i \in 0..(Len(cs) - Len(sub)) : SubSeq(cs, i + 1, i + Len(sub)) = sub

\* /^(.)\1+$/.test(cs): one character, then the same one at least once more
RepeatedChar(cs) ==
    /\ Len(cs) >= 2
    /\ \A i \in 1..Len(cs) : cs[i] = cs[1]

DigitChar(d) == <<"0", "1", "2", "3", "4", "5", "6", "7", "8", "9">>[d + 1]

\* String(k) of a non-negative integer
RECURSIVE NumToStr(_)
NumToStr(k) ==
    IF k < 10 THEN <<DigitChar(k)>>
    ELSE NumToStr(k \div 10) \o <<DigitChar(k % 10)>>

\* String(v), for the values a truthy JSON scalar can be
ToStr(v) == IF v.t = "num" THEN NumToStr(v.n) ELSE v.s

\* "abc" as a sequence of characters
S_null == <<"n", "u", "l", "l">>

S_na == <<"n", "a">>

S_n_a == <<"n", "/", "a">>

S_none == <<"n", "o", "n", "e">>

S_undefined == <<"u", "n", "d", "e", "f", "i", "n", "e", "d">>

S_not_found == <<"n", "o", "t", " ", "f", "o", "u", "n", "d">>

S_missing == <<"m", "i", "s", "s", "i", "n", "g">>

S_not_available ==
    <<"n", "o", "t", " ", "a", "v", "a", "i", "l", "a", "b", "l", "e">>

S_hidden == <<"h", "i", "d", "d", "e", "n">>

S_000000 == <<"0", "0", "0", "0", "0", "0">>

S_1234567890 == <<"1", "2", "3", "4", "5", "6", "7", "8", "9", "0">>

S_0000000000 == <<"0", "0", "0", "0", "0", "0", "0", "0", "0", "0">>

S_12345 == <<"1", "2", "3", "4", "5">>

S_9876543210 == <<"9", "8", "7", "6", "5", "4", "3", "2", "1", "0">>

S_Unknown_Business ==
    <<"U", "n", "k", "n", "o", "w", "n", " ", "B", "u", "s", "i", "n", "e",
      "s", "s">>

S_Address_unavailable ==
    <<"A", "d", "d", "r", "e", "s", "s", " ", "u", "n", "a", "v", "a", "i",
      "l", "a", "b", "l", "e">>

S_Business_Name_Unknown ==
    <<"B", "u", "s", "i", "n", "e", "s", "s", " ", "N", "a", "m", "e", " ",
      "U", "n", "k", "n", "o", "w", "n">>

S_Address_Unknown ==
    <<"A", "d", "d", "r", "e", "s", "s", " ", "U", "n", "k", "n", "o", "w",
      "n">>

S_NaN ==
    <<"N", "a", "N">>

S_true ==
    <<"t", "r", "u", "e">>

S_false ==
    <<"f", "a", "l", "s", "e">>

S_object_Object ==
    <<"[", "o", "b", "j", "e", "c", "t", " ", "O", "b", "j", "e", "c", "t",
      "]">>

(***************************************************************************)
(* Template strings and the maps link                                      *)
(***************************************************************************)
\* `${v}`: ToString of any value
TemplateStr(v) ==
    CASE v.t = "str" -> v.s
      [] v.t = "num" -> NumToStr(v.n)
      [] v.t = "nan" -> S_NaN
      [] v.t = "null" -> S_null
      [] v.t = "bool" -> IF v.n # 0 THEN S_true ELSE S_false
      [] v.t = "obj" -> S_object_Object
      [] OTHER -> S_undefined

\* A-Z a-z 0-9 - _ . ! ~ * ' ( ) pass through encodeURIComponent
IsUnreserved(c) ==
    c \notin {" ", "/", "&", "[", "]", "+", "#", "?", "=", "%", ":", ","}

\* the UTF-8 percent escape of one reserved ASCII character
PercentEscape(c) ==
    CASE c = " " -> <<"%", "2", "0">>
      [] c = "/" -> <<"%", "2", "F">>
      [] c = "&" -> <<"%", "2", "6">>
      [] c = "[" -> <<"%", "5", "B">>
      [] c = "]" -> <<"%", "5", "D">>
      [] c = "+" -> <<"%", "2", "B">>
      [] c = "#" -> <<"%", "2", "3">>
      [] c = "?" -> <<"%", "3", "F">>
      [] c = "=" -> <<"%", "3", "D">>
      [] c = "%" -> <<"%", "2", "5">>
      [] c = ":" -> <<"%", "3", "A">>
      [] OTHER -> <<"%", "2", "C">>

RECURSIVE EncodeURIComponent(_)
EncodeURIComponent(cs) ==
    IF cs = <<>> THEN <<>>
    ELSE (IF IsUnreserved(Head(cs)) THEN <<Head(cs)>>
          ELSE PercentEscape(Head(cs)))
         \o EncodeURIComponent(Tail(cs))

\* the fixed head of every link, kept as one token
MapsPrefix == "https://www.google.com/maps/search/?api=1&query="

\* the link with the address left out
MapsUrlNameOnly(name, address) ==
    JsStr(<<MapsPrefix>> \o EncodeURIComponent(TemplateStr(name)))

\* `https://www.google.com/maps/search/?api=1&query=${encodeURIComponent(
\* `${name} ${address}`)}`
MapsUrl(name, address) ==
    JsStr(<<MapsPrefix>>
          \o EncodeURIComponent(TemplateStr(name) \o <<" ">>
                                \o TemplateStr(address)))

(***************************************************************************)
(* Number(v) and the distance                                              *)
(***************************************************************************)
RECURSIVE DigitsValue(_)
DigitsValue(cs) ==
    IF cs = <<>> THEN 0
    ELSE 10 * DigitsValue(SubSeq(cs, 1, Len(cs) - 1))
         + (CHOOSE d \in 0..9 : DigitChar(d) = cs[Len(cs)])

\* Number(v): a numeric string is its number, "" is 0, any other string and
\* undefined are NaN, null is 0
ToNumber(v) ==
    CASE v.t = "num" -> v
      [] v.t = "null" -> JsNum(0)
      [] v.t = "bool" -> JsNum(v.n)
      [] v.t = "str" ->
            LET cs == Trim(v.s)
            IN  IF \A i \in 1..Len(cs) : IsDigit(cs[i])
                THEN JsNum(DigitsValue(cs))
                ELSE JsNaN
      [] OTHER -> JsNaN

\* isNaN(v)
IsNaN(v) == ToNumber(v).t = "nan"

\* typeof v === 'number'
IsNumberTyped(v) == v.t \in {"num", "nan"}

\* The haversine formula (R = 6371).  Real arithmetic is outside TLA+: the
\* result is a number whose n is a stand-in, 0 exactly when the two points
\* coincide, and NaN when an operand is NaN.
Haversine(lat1, lon1, lat2, lon2) ==
    LET a == ToNumber(lat1)
        b == ToNumber(lon1)
        c == ToNumber(lat2)
        d == ToNumber(lon2)
    IN  IF a.t = "nan" \/ b.t = "nan" \/ c.t = "nan" \/ d.t = "nan"
        THEN JsNaN
        ELSE JsNum((c.n - a.n) * (c.n - a.n) + (d.n - b.n) * (d.n - b.n))

calculateDistanceSvc(lat1, lon1, lat2, lon2) ==
    IF ~Truthy(lat1) \/ ~Truthy(lon1) \/ ~Truthy(lat2) \/ ~Truthy(lon2)
    THEN JsNum(0)
    ELSE Haversine(lat1, lon1, lat2, lon2)

calculateDistanceP0(lat1, lon1, lat2, lon2) ==
    IF IsNaN(lat1) \/ IsNaN(lon1) \/ IsNaN(lat2) \/ IsNaN(lon2)
    THEN JsNum(0)
    ELSE Haversine(lat1, lon1, lat2, lon2)

calculateDistanceP1(lat1, lon1, lat2, lon2) ==
    IF IsNaN(lat1) \/ IsNaN(lon1) \/ IsNaN(lat2) \/ IsNaN(lon2)
    THEN JsNum(0)
    ELSE Haversine(lat1, lon1, lat2, lon2)

calculateDistanceLT(lat1, lon1, lat2, lon2) ==
    IF IsNaN(lat1) \/ IsNaN(lon1) \/ IsNaN(lat2) \/ IsNaN(lon2)
    THEN JsNum(0)
    ELSE Haversine(lat1, lon1, lat2, lon2)

calculateDistance(v, lat1, lon1, lat2, lon2) ==
    CASE v = "services" -> calculateDistanceSvc(lat1, lon1, lat2, lon2)
      [] v = "part_000" -> calculateDistanceP0(lat1, lon1, lat2, lon2)
      [] v = "leadtable" -> calculateDistanceLT(lat1, lon1, lat2, lon2)
      [] OTHER -> calculateDistanceP1(lat1, lon1, lat2, lon2)

(***************************************************************************)
(* Phone cleaning, per revision and per path                               *)
(***************************************************************************)
\* src/services/businessService.ts, primary path
PrimaryPhoneSvc(raw) ==
    IF raw.t = "str"
    THEN LET p == ToLower(Trim(raw.s))
             isPlaceholder ==
                 \/ p = <<>>
                 \/ p = S_null
                 \/ p = S_na
                 \/ p = S_n_a
                 \/ p = S_none
                 \/ p = S_undefined
                 \/ p = S_not_found
                 \/ p = S_missing
                 \/ Includes(p, S_not_available)
                 \/ Includes(p, S_000000)
                 \/ Includes(p, S_1234567890)
         IN  IF isPlaceholder THEN JsNull ELSE JsStr(Trim(raw.s))
    ELSE JsNull

\* part_000, primary path: item.phone || null
PrimaryPhoneP0(raw) == JsOr(raw, JsNull)

\* part_001, primary path
PrimaryPhoneP1(raw) ==
    LET phone == IF Truthy(raw) THEN JsStr(Trim(ToStr(raw))) ELSE JsNull
    IN  IF Truthy(phone)
        THEN LET digits == DigitsOf(phone.s)
                 pLower == ToLower(phone.s)
                 isPlaceholder ==
                     \/ Len(digits) < 7
                     \/ RepeatedChar(digits)
                     \/ digits = S_1234567890
                     \/ Includes(pLower, S_null)
                     \/ Includes(pLower, S_not_found)
                     \/ Includes(pLower, S_hidden)
             IN  IF isPlaceholder THEN JsNull ELSE phone
        ELSE phone

\* LeadTable.tsx lines 244-254, primary path
PrimaryPhoneLT(raw) ==
    LET phone == IF Truthy(raw) THEN JsStr(Trim(ToStr(raw))) ELSE JsNull
    IN  IF Truthy(phone)
        THEN LET digitsOnly == DigitsOf(phone.s)
                 isSuspicious ==
                     \/ Len(digitsOnly) < 8
                     \/ RepeatedChar(digitsOnly)
                     \/ digitsOnly = S_1234567890
                     \/ digitsOnly = S_9876543210
             IN  IF isSuspicious THEN JsNull ELSE phone
        ELSE phone

\* src/services/businessService.ts, fallback path: the string itself is kept
FallbackPhoneSvc(raw) ==
    IF raw.t = "str"
    THEN LET p == ToLower(Trim(raw.s))
         IN  IF p = <<>> \/ p = S_null \/ p = S_na \/ p = S_n_a \/ p = S_none
             THEN JsNull
             ELSE raw
    ELSE JsNull

\* part_000, fallback path: phone comes with ...item
FallbackPhoneP0(raw) == raw

\* part_001, fallback path: item.phone.includes is a TypeError on a truthy
\* value that is not a string
FallbackPhoneThrowsP1(raw) == Truthy(raw) /\ raw.t # "str"

FallbackPhoneP1(raw) ==
    IF Truthy(raw) /\ ~Includes(raw.s, S_12345) THEN raw ELSE JsNull

\* LeadTable.tsx line 299: item.phone.length is undefined on a number, and
\* undefined >= 8 is false
FallbackPhoneLT(raw) ==
    IF Truthy(raw) /\ raw.t = "str" /\ Len(raw.s) >= 8 THEN raw ELSE JsNull

(***************************************************************************)
(* Raw records and leads                                                   *)
(***************************************************************************)
\* An element of the parsed array: kind "obj" is a JSON object (an absent
\* field is undefined), "null" is null (reading a field throws a TypeError),
\* "prim" is a number or a string (every field reads as undefined).
RawObj(id, name, address, phone, lat, lng, distance, rating, mapsUrl) ==
    [kind |-> "obj", id |-> id, name |-> name, address |-> address,
     phone |-> phone, lat |-> lat, lng |-> lng, distance |-> distance,
     rating |-> rating, mapsUrl |-> mapsUrl]

RawNull ==
    [kind |-> "null", id |-> JsUndef, name |-> JsUndef, address |-> JsUndef,
     phone |-> JsUndef, lat |-> JsUndef, lng |-> JsUndef,
     distance |-> JsUndef, rating |-> JsUndef, mapsUrl |-> JsUndef]

RawPrim ==
    [kind |-> "prim", id |-> JsUndef, name |-> JsUndef, address |-> JsUndef,
     phone |-> JsUndef, lat |-> JsUndef, lng |-> JsUndef,
     distance |-> JsUndef, rating |-> JsUndef, mapsUrl |-> JsUndef]

LeadIdNoIndex(prefix, now, index) == JsStr(<<prefix>> \o NumToStr(now))

\* `lead-${Date.now()}-${index}`
LeadId(prefix, now, index) ==
    JsStr(<<prefix>> \o NumToStr(now) \o <<"-">> \o NumToStr(index))

\* item.<field> on null or undefined is a TypeError
ItemThrows(item) == item.kind = "null"

\* src/services/businessService.ts lines 73-118
PrimaryLeadSvc(item, index, now) ==
    LET name == JsOr(item.name, JsStr(S_Unknown_Business))
        address == JsOr(item.address, JsStr(S_Address_unavailable))
    IN
        [id |-> LeadId("lead-", now, index),
         name |-> name,
         address |-> address,
         phone |-> PrimaryPhoneSvc(item.phone),
         lat |-> IF IsNumberTyped(item.lat) THEN item.lat ELSE JsNum(0),
         lng |-> IF IsNumberTyped(item.lng) THEN item.lng ELSE JsNum(0),
         distance |-> JsNull,
         rating |-> JsOr(item.rating, JsNull)]

\* part_000 lines 69-91
PrimaryLeadP0(item, index, now) ==
    LET name == JsOr(item.name, JsStr(S_Business_Name_Unknown))
        address == JsOr(item.address, JsStr(S_Address_Unknown))
    IN
        [id |-> LeadId("lead-", now, index),
         name |-> name,
         address |-> address,
         phone |-> PrimaryPhoneP0(item.phone),
         lat |-> JsOr(ToNumber(item.lat), JsNum(0)),
         lng |-> JsOr(ToNumber(item.lng), JsNum(0)),
         distance |-> JsNull,
         rating |-> IF IsNumberTyped(item.rating) THEN item.rating ELSE JsNull]

\* part_001 lines 75-114
PrimaryLeadP1(item, index, now) ==
    LET name == JsOr(item.name, JsStr(S_Business_Name_Unknown))
        address == JsOr(item.address, JsStr(S_Address_Unknown))
    IN
        [id |-> LeadId("lead-", now, index),
         name |-> name,
         address |-> address,
         phone |-> PrimaryPhoneP1(item.phone),
         lat |-> JsOr(ToNumber(item.lat), JsNum(0)),
         lng |-> JsOr(ToNumber(item.lng), JsNum(0)),
         distance |-> JsNull,
         rating |-> IF IsNumberTyped(item.rating) THEN item.rating ELSE JsNull]

\* LeadTable.tsx lines 239-274
PrimaryLeadLT(item, index, now) ==
    LET name == JsOr(item.name, JsStr(S_Business_Name_Unknown))
        address == JsOr(item.address, JsStr(S_Address_Unknown))
    IN
        [id |-> LeadId("lead-", now, index),
         name |-> name,
         address |-> address,
         phone |-> PrimaryPhoneLT(item.phone),
         lat |-> JsOr(ToNumber(item.lat), JsNum(0)),
         lng |-> JsOr(ToNumber(item.lng), JsNum(0)),
         distance |-> JsNull,
         rating |-> IF IsNumberTyped(item.rating) THEN item.rating ELSE JsNull]

\* the mapsUrl of a primary lead: businessService.ts line 112, part_000
\* line 85, part_001 line 108, LeadTable.tsx line 268; `name` and `address`
\* are the constants of lines 97-98 (70-71, 76-77, 240-241)
PrimaryMapsUrl(v, item) ==
    IF v = "services"
    THEN MapsUrl(JsOr(item.name, JsStr(S_Unknown_Business)),
                 JsOr(item.address, JsStr(S_Address_unavailable)))
    ELSE MapsUrl(JsOr(item.name, JsStr(S_Business_Name_Unknown)),
                 JsOr(item.address, JsStr(S_Address_Unknown)))

\* the mapsUrl of a fallback lead, written after ...item: businessService.ts
\* line 152, part_000 line 113, part_001 line 135, LeadTable.tsx line 297
FallbackMapsUrl(v, item) == MapsUrl(item.name, item.address)

\* a lead together with its mapsUrl
WithMapsUrl(lead, url) ==
    [f \in DOMAIN lead \cup {"mapsUrl"} |->
        IF f = "mapsUrl" THEN url ELSE lead[f]]

PrimaryLead(v, item, index, now) ==
    CASE v = "services" -> PrimaryLeadSvc(item, index, now)
      [] v = "part_000" -> PrimaryLeadP0(item, index, now)
      [] v = "leadtable" -> PrimaryLeadLT(item, index, now)
      [] OTHER -> PrimaryLeadP1(item, index, now)

\* src/services/businessService.ts lines 139-158: ...item, then the overrides
FallbackLeadSvc(item, index, now) ==
    [id |-> LeadId("fb-", now, index),
     name |-> item.name,
     address |-> item.address,
     phone |-> FallbackPhoneSvc(item.phone),
     lat |-> item.lat,
     lng |-> item.lng,
     distance |-> item.distance,
     rating |-> JsOr(item.rating, JsNull)]

\* part_000 lines 109-115
FallbackLeadP0(item, index, now) ==
    [id |-> LeadId("fallback-", now, index),
     name |-> item.name,
     address |-> item.address,
     phone |-> FallbackPhoneP0(item.phone),
     lat |-> item.lat,
     lng |-> item.lng,
     distance |-> item.distance,
     rating |-> item.rating]

\* part_001 lines 131-145
FallbackLeadP1(item, index, now) ==
    [id |-> LeadId("fallback-", now, index),
     name |-> item.name,
     address |-> item.address,
     phone |-> FallbackPhoneP1(item.phone),
     lat |-> item.lat,
     lng |-> item.lng,
     distance |-> JsNull,
     rating |-> IF IsNumberTyped(item.rating) THEN item.rating ELSE JsNull]

\* LeadTable.tsx lines 293-306
FallbackLeadLT(item, index, now) ==
    [id |-> LeadId("fb-", now, index),
     name |-> item.name,
     address |-> item.address,
     phone |-> FallbackPhoneLT(item.phone),
     lat |-> item.lat,
     lng |-> item.lng,
     distance |-> JsNull,
     rating |-> item.rating]

FallbackLead(v, item, index, now) ==
    CASE v = "services" -> FallbackLeadSvc(item, index, now)
      [] v = "part_000" -> FallbackLeadP0(item, index, now)
      [] v = "leadtable" -> FallbackLeadLT(item, index, now)
      [] OTHER -> FallbackLeadP1(item, index, now)

\* the fallback callback throws on a null element, and in part_001 on a
\* truthy phone that is not a string
FallbackItemThrows(v, item) ==
    \/ ItemThrows(item)
    \/ v = "part_001" /\ FallbackPhoneThrowsP1(item.phone)

\* results.map(...) of the primary path: ok is FALSE when a callback throws
PrimaryMap(v, items, clk) ==
    IF \E i \in 1..Len(items) : ItemThrows(items[i])
    THEN [ok |-> FALSE, leads |-> <<>>]
    ELSE [ok |-> TRUE,
          leads |-> [i \in 1..Len(items) |->
                        PrimaryLead(v, items[i], i - 1, clk[i])]]

\* items.map(...) of quickFallback
FallbackMap(v, items, clk) ==
    IF \E i \in 1..Len(items) : FallbackItemThrows(v, items[i])
    THEN [ok |-> FALSE, leads |-> <<>>]
    ELSE [ok |-> TRUE,
          leads |-> [i \in 1..Len(items) |->
                        FallbackLead(v, items[i], i - 1, clk[i])]]

(***************************************************************************)
(* Inputs                                                                  *)
(***************************************************************************)
Variants == {"services", "part_000", "part_001", "leadtable"}

\* process.env.API_KEY: absent, "", the string "undefined", or a key
ApiKeys == {"absent", "", "undefined", "key"}

Ch(c) == JsStr(<<c>>)

P_plain == <<"9", "8", "7", "6", "5", " ", "4", "3", "2", "1", "0">>

\* {id: "x", name: "A", address: "X", phone: "12345", lat: 18, lng: 73,
\*  rating: 4}
ItemA ==
    RawObj(Ch("x"), Ch("A"), Ch("X"), JsStr(S_12345),
           JsNum(18), JsNum(73), JsUndef, JsNum(4), JsUndef)

\* {id: "x", name: "B", phone: 9876543, lat: 0, lng: 73, distance: 5}
ItemB ==
    RawObj(Ch("x"), Ch("B"), JsUndef, JsNum(9876543),
           JsNum(0), JsNum(73), JsNum(5), JsUndef, Ch("u"))

RawItems == {ItemA, ItemB, RawNull, RawPrim}

\* what Date.now() may return for one record
Clock == {1, 11}

\* what Date.now() returns for the n records of one batch: it does not go
\* back while the map runs
Clocks(n) ==
    {clk \in [1..n -> Clock] : \A i, j \in 1..n : i < j => clk[i] <= clk[j]}

\* the parsed arrays of up to MaxBatch records: every pair of records in the
\* first two places, and the second record again in the places after it
RawArrays ==
    UNION { {a \in [1..n -> RawItems] : \A i \in 3..n : a[i] = a[2]} :
            n \in 0..MaxBatch }

\* What one generateContent call produces: it throws, or returns a response
\* whose text is empty, is not JSON ("malformed": JSON.parse throws), is
\* JSON but no array and holds no bracket ("nonarray"), is a JSON array
\* ("array"), is a JSON array inside a markdown fence ("wrapped"), or is a
\* JSON array after a sentence that itself holds a bracketed reference
\* ("cited").  marker says that the message of the error thrown contains
\* "API_KEY_MISSING": the message of a request error is the server's, and
\* the message of the SyntaxError of JSON.parse quotes the text in some
\* engines.
Outcome(kind, marker, items) ==
    [kind |-> kind, marker |-> marker, items |-> items]

\* the arrays that come inside other text
WrappedArrays == {<<>>, <<ItemA>>}

Outcomes ==
    {Outcome(k, m, <<>>) : k \in {"throw", "malformed"}, m \in BOOLEAN}
    \cup {Outcome(k, FALSE, <<>>) : k \in {"empty", "nonarray"}}
    \cup {Outcome("array", FALSE, a) : a \in RawArrays}
    \cup {Outcome(k, FALSE, a) : k \in {"wrapped", "cited"},
                                 a \in WrappedArrays}

(***************************************************************************)
(* response.text as a sequence of tokens: "[" and "]", the JSON text of    *)
(* one value without brackets ("item", with the value), a run of other     *)
(* characters without brackets ("word"), white space (" ").  The commas of *)
(* an array are left out.                                                  *)
(***************************************************************************)
Tok(t) == [tok |-> t, item |-> RawPrim]

ItemTok(item) == [tok |-> "item", item |-> item]

ArrayText(items) ==
    <<Tok("[")>> \o [i \in 1..Len(items) |-> ItemTok(items[i])]
                \o <<Tok("]")>>

\* the text of a response
TextOf(o) ==
    CASE o.kind = "malformed" -> <<Tok("word")>>
      [] o.kind = "nonarray" -> <<ItemTok(ItemA)>>
      [] o.kind = "array" -> ArrayText(o.items)
      [] o.kind = "wrapped" ->
            <<Tok("word"), Tok(" ")>> \o ArrayText(o.items)
                \o <<Tok(" "), Tok("word")>>
      [] o.kind = "cited" ->
            <<Tok("word"), Tok("["), Tok("word"), Tok("]"), Tok(" ")>>
                \o ArrayText(o.items)
      [] OTHER -> <<>>

RECURSIVE TrimTextLeft(_)
TrimTextLeft(ts) ==
    IF ts # <<>> /\ Head(ts).tok = " " THEN TrimTextLeft(Tail(ts)) ELSE ts

RECURSIVE TrimTextRight(_)
TrimTextRight(ts) ==
    IF ts # <<>> /\ ts[Len(ts)].tok = " "
    THEN TrimTextRight(SubSeq(ts, 1, Len(ts) - 1))
    ELSE ts

\* text.trim()
TrimText(ts) == TrimTextRight(TrimTextLeft(ts))

ParseThrows == [ok |-> FALSE, array |-> FALSE, items |-> <<>>]

\* JSON.parse: an array of values, one value that is no array, or a
\* SyntaxError; white space between the tokens is skipped
JsonParse(ts) ==
    LET solid(t) == t.tok # " "
        t == SelectSeq(ts, solid)
    IN  CASE /\ Len(t) >= 2
             /\ t[1].tok = "["
             /\ t[Len(t)].tok = "]"
             /\ \A i \in 2..(Len(t) - 1) : t[i].tok = "item" ->
                [ok |-> TRUE, array |-> TRUE,
                 items |-> [i \in 1..(Len(t) - 2) |-> t[i + 1].item]]
          [] Len(t) = 1 /\ t[1].tok = "item" ->
                [ok |-> TRUE, array |-> FALSE, items |-> <<>>]
          [] OTHER -> ParseThrows

\* text.match(/\[[\s\S]*\]/): from the first "[" to the last "]", and the
\* text itself when there is no match
BracketMatch(ts) ==
    LET opens == {i \in 1..Len(ts) : ts[i].tok = "["}
        closes == {i \in 1..Len(ts) : ts[i].tok = "]"}
        first == CHOOSE i \in opens : \A k \in opens : i <= k
        last == CHOOSE j \in closes : \A k \in closes : k <= j
    IN  IF opens # {} /\ closes # {} /\ first < last
        THEN SubSeq(ts, first, last)
        ELSE ts

\* businessService.ts lines 64-67
DecodePrimarySvc(text) ==
    IF text = <<>> THEN ParseThrows ELSE JsonParse(TrimText(text))

\* part_000 lines 57-65
DecodePrimaryP0(text) ==
    IF TrimText(text) = <<>> THEN ParseThrows
    ELSE JsonParse(BracketMatch(text))

\* part_001 lines 66-72
DecodePrimaryP1(text) ==
    IF TrimText(text) = <<>> THEN ParseThrows
    ELSE JsonParse(BracketMatch(text))

\* LeadTable.tsx lines 230-236
DecodePrimaryLT(text) ==
    IF TrimText(text) = <<>> THEN ParseThrows
    ELSE JsonParse(BracketMatch(text))

\* businessService.ts line 138
DecodeFallbackSvc(text) == JsonParse(TrimText(text))

\* part_000 line 108: JSON.parse(response.text || "[]")
DecodeFallbackP0(text) ==
    JsonParse(IF text = <<>> THEN ArrayText(<<>>) ELSE text)

\* part_001 line 130
DecodeFallbackP1(text) ==
    JsonParse(IF text = <<>> THEN ArrayText(<<>>) ELSE text)

\* LeadTable.tsx line 292
DecodeFallbackLT(text) ==
    JsonParse(IF text = <<>> THEN ArrayText(<<>>) ELSE text)

DecodeFallback(v, text) ==
    CASE v = "services" -> DecodeFallbackSvc(text)
      [] v = "part_000" -> DecodeFallbackP0(text)
      [] v = "leadtable" -> DecodeFallbackLT(text)
      [] OTHER -> DecodeFallbackP1(text)

NoOutcome == [kind |-> "none", marker |-> FALSE, n |-> 0, objects |-> FALSE]

\* what the model remembers of an outcome
Summary(o) ==
    [kind |-> o.kind, marker |-> o.marker, n |-> Len(o.items),
     objects |-> \A i \in 1..Len(o.items) : o.items[i].kind = "obj"]

NoCoords == [has |-> FALSE, lat |-> JsNum(0), lng |-> JsNum(0)]

Coords(lat, lng) == [has |-> TRUE, lat |-> JsNum(lat), lng |-> JsNum(lng)]

Origins == {Coords(28, 77), Coords(0, 77)}

Cities == {"", "Pune"}

CategoryLists == {<<>>, <<"Cafe">>}

Radii == {20}

NoReq == [city |-> "", categories |-> <<>>, radius |-> 20, coords |-> NoCoords]

NoResult == [status |-> "none", leads |-> <<>>, error |-> "none"]

Resolved(ls) == [status |-> "resolved", leads |-> ls, error |-> "none"]

Rejected(e) == [status |-> "rejected", leads |-> <<>>, error |-> e]

NoItem == [item |-> RawPrim, index |-> 0, now |-> 1]

NoLead == PrimaryLeadSvc(RawPrim, 0, 1)

(***************************************************************************)
(* findBusinessLeads                                                       *)
(***************************************************************************)
\* part_000 line 10, part_001 line 10, LeadTable.tsx line 175
KeyMissing(k) == k = "absent" \/ k = "undefined" \/ k = ""

\* new GoogleGenAI({ apiKey }): the client library is not part of the
\* repository; it is taken to refuse a key that is absent or empty and to
\* accept every other string.
ClientRefuses(k) == k = "absent" \/ k = ""

\* The synchronous part of findBusinessLeads, up to the first await:
\* "rejected" with the error thrown, or "issued" (the primary request is out)
CallStart(v, k) ==
    IF v = "services"
    THEN IF ClientRefuses(k) THEN Rejected("client_error") ELSE NoResult
    ELSE IF KeyMissing(k) THEN Rejected("API_KEY_MISSING") ELSE NoResult

\* The rest of the try block and the catch block, for the outcome o of the
\* primary request: [next |-> "settled", result] or [next |-> "fallback"]
PrimarySvc(o, clk) ==
    LET d == DecodePrimarySvc(TextOf(o))
    IN  IF /\ o.kind # "throw"
           /\ d.ok
           /\ d.array
           /\ PrimaryMap("services", d.items, clk).ok
        THEN [next |-> "settled",
              result |-> Resolved(PrimaryMap("services", d.items, clk).leads)]
        ELSE [next |-> "fallback", result |-> NoResult]

PrimaryP0(o, clk) ==
    LET d == DecodePrimaryP0(TextOf(o))
    IN  CASE (o.kind = "throw" \/ ~d.ok) /\ o.marker ->
                [next |-> "settled", result |-> Rejected("request_error")]
          [] o.kind # "throw" /\ d.ok /\ ~d.array ->
                [next |-> "settled", result |-> Resolved(<<>>)]
          [] /\ o.kind # "throw"
             /\ d.ok
             /\ d.array
             /\ PrimaryMap("part_000", d.items, clk).ok ->
                [next |-> "settled",
                 result |->
                     Resolved(PrimaryMap("part_000", d.items, clk).leads)]
          [] OTHER -> [next |-> "fallback", result |-> NoResult]

PrimaryP1(o, clk) ==
    LET d == DecodePrimaryP1(TextOf(o))
    IN  CASE (o.kind = "throw" \/ ~d.ok) /\ o.marker ->
                [next |-> "settled", result |-> Rejected("request_error")]
          [] o.kind # "throw" /\ d.ok /\ ~d.array ->
                [next |-> "settled", result |-> Resolved(<<>>)]
          [] /\ o.kind # "throw"
             /\ d.ok
             /\ d.array
             /\ PrimaryMap("part_001", d.items, clk).ok ->
                [next |-> "settled",
                 result |->
                     Resolved(PrimaryMap("part_001", d.items, clk).leads)]
          [] OTHER -> [next |-> "fallback", result |-> NoResult]

PrimaryLT(o, clk) ==
    LET d == DecodePrimaryLT(TextOf(o))
    IN  CASE (o.kind = "throw" \/ ~d.ok) /\ o.marker ->
                [next |-> "settled", result |-> Rejected("request_error")]
          [] o.kind # "throw" /\ d.ok /\ ~d.array ->
                [next |-> "settled", result |-> Resolved(<<>>)]
          [] /\ o.kind # "throw"
             /\ d.ok
             /\ d.array
             /\ PrimaryMap("leadtable", d.items, clk).ok ->
                [next |-> "settled",
                 result |->
                     Resolved(PrimaryMap("leadtable", d.items, clk).leads)]
          [] OTHER -> [next |-> "fallback", result |-> NoResult]

PrimaryStep(v, o, clk) ==
    CASE v = "services" -> PrimarySvc(o, clk)
      [] v = "part_000" -> PrimaryP0(o, clk)
      [] v = "leadtable" -> PrimaryLT(o, clk)
      [] OTHER -> PrimaryP1(o, clk)

\* quickFallback after its await: every failure (the request, JSON.parse,
\* items.map on a value that is no array, the callback) is caught and
\* gives []
quickFallback(v, o, clk) ==
    LET d == DecodeFallback(v, TextOf(o))
    IN  IF /\ o.kind # "throw"
           /\ d.ok
           /\ d.array
           /\ FallbackMap(v, d.items, clk).ok
        THEN Resolved(FallbackMap(v, d.items, clk).leads)
        ELSE Resolved(<<>>)

(***************************************************************************)
(* App.tsx: performSearch                                                  *)
(***************************************************************************)
\* lines 103-108: the distance annotation, with the userCoords the callback
\* captured
Annotate(v, coords, ls) ==
    [i \in 1..Len(ls) |->
        IF coords.has /\ Truthy(ls[i].lat) /\ Truthy(ls[i].lng)
        THEN [ls[i] EXCEPT !.distance =
                 calculateDistance(v, coords.lat, coords.lng,
                                   ls[i].lat, ls[i].lng)]
        ELSE ls[i]]

\* filtered.slice(0, 14)
HistoryKeep == 14

RECURSIVE JoinQuoted(_)
JoinQuoted(cs) ==
    CASE cs = <<>> -> <<>>
      [] Len(cs) = 1 -> <<"\"", cs[1], "\"">>
      [] OTHER -> <<"\"", cs[1], "\"", ",">> \o JoinQuoted(Tail(cs))

\* JSON.stringify of an array of category names (none of them holds a
\* quote or a backslash), as a sequence of pieces
JsonStringify(cs) == <<"[">> \o JoinQuoted(cs) \o <<"]">>

\* a comparison that looks at the city alone
SameCity(h, city, categories) == h.city = city

\* line 123: the test of the filter
SameQuery(h, city, categories) ==
    /\ h.city = city
    /\ JsonStringify(h.categories) = JsonStringify(categories)

Entry(city, categories, radius, count) ==
    [city |-> city, categories |-> categories, radius |-> radius,
     resultCount |-> count]

\* the update without the slice
RecordHistoryUncut(prev, city, categories, radius, count) ==
    LET keep(h) == ~SameQuery(h, city, categories)
    IN  <<Entry(city, categories, radius, count)>> \o SelectSeq(prev, keep)

\* lines 116-124: the new entry in front, the entries of the same city and
\* categories removed, 14 of the others kept
RecordHistory(prev, city, categories, radius, count) ==
    LET keep(h) == ~SameQuery(h, city, categories)
        filtered == SelectSeq(prev, keep)
    IN  <<Entry(city, categories, radius, count)>>
            \o SubSeq(filtered, 1,
                      IF Len(filtered) < HistoryKeep
                      THEN Len(filtered) ELSE HistoryKeep)

\* a test that lets every result through
AnyCount(processed) == TRUE

\* line 115
HasLeads(processed) == Len(processed) > 0

\* What localStorage holds under STORAGE_KEYS.HISTORY: nothing ("absent"),
\* the empty string ("blank"), a text that is no JSON ("garbage"), the JSON
\* text of a value that is no array ("scalar"), the JSON text of a list
\* ("json", with the list).
Stored(kind, list) == [kind |-> kind, value |-> list]

NoStorage == Stored("absent", <<>>)

\* JSON.stringify of one entry: the numbers become their digits, the
\* category list its JSON text
StringifyEntry(e) ==
    [city |-> e.city, categories |-> JsonStringify(e.categories),
     radius |-> NumToStr(e.radius), resultCount |-> NumToStr(e.resultCount)]

\* line 125: JSON.stringify(updated)
StringifyHistory(list) == [i \in 1..Len(list) |-> StringifyEntry(list[i])]

\* JSON.parse of the text of an array of names: the pieces between quotes
ParseStrings(ts) == [k \in 1..((Len(ts) - 1) \div 4) |-> ts[4 * k - 1]]

\* JSON.parse of one entry
ParseEntry(t) ==
    Entry(t.city, ParseStrings(t.categories), DigitsValue(t.radius),
          DigitsValue(t.resultCount))

\* line 32: JSON.parse(savedHistory) of the text of a list
ParseHistory(text) == [i \in 1..Len(text) |-> ParseEntry(text[i])]

\* a record that writes nothing to the storage
PersistNothing(updated) == NoStorage

\* line 125: localStorage.setItem(STORAGE_KEYS.HISTORY,
\* JSON.stringify(updated))
Persist(updated) == Stored("json", StringifyHistory(updated))

\* lines 29-36: what the mount effect makes of the stored value.  isList is
\* false when setHistory received a value that is no array.
LoadHistory(stored) ==
    CASE stored.kind = "json" ->
            [isList |-> TRUE, list |-> ParseHistory(stored.value)]
      [] stored.kind = "scalar" -> [isList |-> FALSE, list |-> <<>>]
      [] OTHER -> [isList |-> TRUE, list |-> <<>>]

(***************************************************************************)
(* App.tsx lines 61-95: the effect on [loading].  timers counts the        *)
(* interval timers that are running; tickerRef and progressRef say that    *)
(* the ref holds the id of a running timer.                                *)
(***************************************************************************)
NoTimers ==
    [ticker |-> 0, tickerRef |-> FALSE, progress |-> 0, progressRef |-> FALSE]

\* an effect that clears nothing
KeepRefs(t) == t

\* lines 88-89 and 92-93: clearInterval on what the refs hold
ClearRefs(t) ==
    [ticker |-> IF t.tickerRef THEN t.ticker - 1 ELSE t.ticker,
     tickerRef |-> FALSE,
     progress |-> IF t.progressRef THEN t.progress - 1 ELSE t.progress,
     progressRef |-> FALSE]

\* lines 73-86: two calls of setInterval, the ids stored in the refs
StartTimers(t) ==
    [ticker |-> t.ticker + 1, tickerRef |-> TRUE,
     progress |-> t.progress + 1, progressRef |-> TRUE]

Init ==
    /\ variant \in Variants
    /\ apiKey \in ApiKeys
    /\ userCoords = NoCoords
    /\ loading = FALSE
    /\ leads = <<>>
    /\ history = <<>>
    /\ storage = NoStorage
    /\ lastAlert = "none"
    /\ pc = "boot"
    /\ req = NoReq
    /\ primIssued = 0
    /\ fbIssued = 0
    /\ primOut = NoOutcome
    /\ fbOut = NoOutcome
    /\ result = NoResult
    /\ pending = <<>>
    /\ timers = NoTimers
    /\ effectDue = FALSE
    /\ nPc = "off"
    /\ nIn = NoItem
    /\ nOut = NoLead

harness == <<nPc, nIn, nOut>>

\* lines 28-36: the mount effect reads the stored history.  A history that
\* is no array makes the render of the history panel throw (line 387):
\* the App is gone ("crashed").
Mount ==
    /\ pc = "boot"
    /\ history' = LoadHistory(storage).list
    /\ pc' = IF LoadHistory(storage).isList THEN "idle" ELSE "crashed"
    /\ UNCHANGED <<variant, apiKey, userCoords, loading, leads, storage,
                   lastAlert, req, primIssued, fbIssued, primOut, fbOut,
                   result, pending, timers, effectDue, harness>>

\* lines 61-95: the cleanup of the previous run, then the body.  React runs
\* the effect after the render that changed loading and before it handles
\* the next state update.
LoadingEffect ==
    /\ effectDue
    /\ timers' = IF loading
                 THEN StartTimers(ClearRefs(timers))
                 ELSE ClearRefs(ClearRefs(timers))
    /\ effectDue' = FALSE
    /\ UNCHANGED <<variant, apiKey, userCoords, loading, leads, history,
                   storage, lastAlert, pc, req, primIssued, fbIssued,
                   primOut, fbOut, result, pending, harness>>

\* the App has been mounted and is rendered
Mounted == pc \notin {"boot", "crashed"}

\* a control that is there whatever loading is
AlwaysEnabled == TRUE

\* line 327: the submit button is disabled while loading
SubmitEnabled == ~loading

\* line 346: the history panel is rendered only while not loading
HistoryShown == ~loading

\* lines 38-46: the geolocation callback
Locate(origins) ==
    /\ Mounted
    /\ ~effectDue
    /\ ~userCoords.has
    /\ \E c \in origins : userCoords' = c
    /\ UNCHANGED <<variant, apiKey, loading, leads, history, storage,
                   lastAlert, pc, req, primIssued, fbIssued, primOut, fbOut,
                   result, pending, timers, effectDue, harness>>

GeoSuccess == Locate(Origins)

\* a performSearch without setLeads([])
performSearchKeepLeads(city, categories, radius) ==
    IF city = "" \/ categories = <<>>
    THEN UNCHANGED <<loading, leads, pc, req, primIssued, fbIssued, primOut,
                     fbOut, result, effectDue>>
    ELSE /\ loading' = TRUE
         /\ effectDue' = TRUE
         /\ UNCHANGED leads
         /\ req' = [city |-> city, categories |-> categories,
                    radius |-> radius, coords |-> userCoords]
         /\ primOut' = NoOutcome
         /\ fbOut' = NoOutcome
         /\ fbIssued' = 0
         /\ result' = CallStart(variant, apiKey)
         /\ IF CallStart(variant, apiKey).status = "rejected"
            THEN primIssued' = 0 /\ pc' = "settled"
            ELSE primIssued' = 1 /\ pc' = "primary"

\* a performSearch without the test of line 98
performSearchUnchecked(city, categories, radius) ==
    /\ loading' = TRUE
    /\ effectDue' = TRUE
    /\ leads' = <<>>
    /\ req' = [city |-> city, categories |-> categories,
               radius |-> radius, coords |-> userCoords]
    /\ primOut' = NoOutcome
    /\ fbOut' = NoOutcome
    /\ fbIssued' = 0
    /\ result' = CallStart(variant, apiKey)
    /\ IF CallStart(variant, apiKey).status = "rejected"
       THEN primIssued' = 0 /\ pc' = "settled"
       ELSE primIssued' = 1 /\ pc' = "primary"

\* performSearch (lines 97-102) with the synchronous part of
\* findBusinessLeads
performSearch(city, categories, radius) ==
    IF city = "" \/ categories = <<>>
    THEN UNCHANGED <<loading, leads, pc, req, primIssued, fbIssued, primOut,
                     fbOut, result, effectDue>>
    ELSE /\ loading' = TRUE
         /\ effectDue' = TRUE
         /\ leads' = <<>>
         /\ req' = [city |-> city, categories |-> categories,
                    radius |-> radius, coords |-> userCoords]
         /\ primOut' = NoOutcome
         /\ fbOut' = NoOutcome
         /\ fbIssued' = 0
         /\ result' = CallStart(variant, apiKey)
         /\ IF CallStart(variant, apiKey).status = "rejected"
            THEN primIssued' = 0 /\ pc' = "settled"
            ELSE primIssued' = 1 /\ pc' = "primary"

\* handleSearchSubmit (lines 136-143); the submit button is disabled while
\* loading (line 327)
Submit(cities, lists, radii) ==
    /\ Mounted
    /\ SubmitEnabled
    /\ ~effectDue
    /\ \E city \in cities, categories \in lists, radius \in radii :
          IF categories = <<>>
          THEN /\ lastAlert' = "select_category"
               /\ UNCHANGED <<loading, leads, pc, req, primIssued, fbIssued,
                              primOut, fbOut, result, effectDue>>
          ELSE /\ performSearch(city, categories, radius)
               /\ UNCHANGED lastAlert
    /\ UNCHANGED <<variant, apiKey, userCoords, history, storage, pending,
                   timers, harness>>

SearchSubmit == Submit(Cities, CategoryLists, Radii)

\* a click on a history entry (line 391); the list is rendered only while
\* not loading (line 346)
HistoryClick ==
    /\ Mounted
    /\ HistoryShown
    /\ ~effectDue
    /\ \E i \in 1..Len(history) :
          performSearch(history[i].city, history[i].categories,
                        history[i].radius)
    /\ UNCHANGED <<variant, apiKey, userCoords, history, storage, lastAlert,
                   pending, timers, harness>>

\* the primary request settles: the rest of the try block, the catch block,
\* and the start of quickFallback up to its await.  The request was issued
\* from a click or a submit; React runs the effects of the render such an
\* event causes with that render, before a response can arrive.
PrimaryResponds(outcomes) ==
    /\ pc = "primary"
    /\ ~effectDue
    /\ \E o \in outcomes : \E clk \in Clocks(Len(o.items)) :
          LET step == PrimaryStep(variant, o, clk)
          IN  /\ primOut' = Summary(o)
              /\ result' = step.result
              /\ pc' = step.next
              /\ fbIssued' = IF step.next = "fallback" THEN 1 ELSE 0
    /\ UNCHANGED <<variant, apiKey, userCoords, loading, leads, history,
                   storage, lastAlert, req, primIssued, fbOut, pending,
                   timers, effectDue, harness>>

PrimaryResponse == PrimaryResponds(Outcomes)

\* the fallback request settles
FallbackResponds(outcomes) ==
    /\ pc = "fallback"
    /\ ~effectDue
    /\ \E o \in outcomes : \E clk \in Clocks(Len(o.items)) :
          /\ fbOut' = Summary(o)
          /\ result' = quickFallback(variant, o, clk)
    /\ pc' = "settled"
    /\ UNCHANGED <<variant, apiKey, userCoords, loading, leads, history,
                   storage, lastAlert, req, primIssued, fbIssued, primOut,
                   pending, timers, effectDue, harness>>

FallbackResponse == FallbackResponds(Outcomes)

\* the promise is consumed: the record of the call in flight is dropped
CallOver ==
    /\ result' = NoResult
    /\ primIssued' = 0
    /\ fbIssued' = 0
    /\ primOut' = NoOutcome
    /\ fbOut' = NoOutcome

\* performSearch after the await, lines 103-128
SearchResolved ==
    /\ pc = "settled"
    /\ ~effectDue
    /\ result.status = "resolved"
    /\ LET processed == Annotate(variant, req.coords, result.leads)
           updated == RecordHistory(history, req.city, req.categories,
                                    req.radius, Len(processed))
       IN  /\ pending' = processed
           /\ IF HasLeads(processed)
              THEN /\ history' = updated
                   /\ storage' = Persist(updated)
              ELSE UNCHANGED <<history, storage>>
    /\ pc' = "delay"
    /\ CallOver
    /\ UNCHANGED <<variant, apiKey, userCoords, loading, leads, lastAlert,
                   req, timers, effectDue, harness>>

\* a catch block without setLoading(false)
SearchRejectedKeepsLoading ==
    /\ pc = "settled"
    /\ ~effectDue
    /\ result.status = "rejected"
    /\ lastAlert' = "search_failed"
    /\ pc' = "idle"
    /\ CallOver
    /\ UNCHANGED <<variant, apiKey, userCoords, loading, leads, history,
                   storage, req, pending, timers, effectDue, harness>>

\* the catch block of performSearch, lines 129-133
SearchRejected ==
    /\ pc = "settled"
    /\ ~effectDue
    /\ result.status = "rejected"
    /\ lastAlert' = "search_failed"
    /\ loading' = FALSE
    /\ effectDue' = TRUE
    /\ pc' = "idle"
    /\ CallOver
    /\ UNCHANGED <<variant, apiKey, userCoords, leads, history, storage, req,
                   pending, timers, harness>>

\* a timeout callback that leaves loading as it is
DisplayTimeoutKeepsLoading ==
    /\ pc = "delay"
    /\ ~effectDue
    /\ leads' = pending
    /\ pending' = <<>>
    /\ pc' = "idle"
    /\ UNCHANGED <<variant, apiKey, userCoords, loading, history, storage,
                   lastAlert, req, primIssued, fbIssued, primOut, fbOut,
                   result, timers, effectDue, harness>>

\* the setTimeout callback, lines 111-114
DisplayTimeout ==
    /\ pc = "delay"
    /\ ~effectDue
    /\ leads' = pending
    /\ loading' = FALSE
    /\ effectDue' = TRUE
    /\ pending' = <<>>
    /\ pc' = "idle"
    /\ UNCHANGED <<variant, apiKey, userCoords, history, storage, lastAlert,
                   req, primIssued, fbIssued, primOut, fbOut, result, timers,
                   harness>>

Next ==
    \/ Mount
    \/ LoadingEffect
    \/ GeoSuccess
    \/ SearchSubmit
    \/ HistoryClick
    \/ PrimaryResponse
    \/ FallbackResponse
    \/ SearchResolved
    \/ SearchRejected
    \/ DisplayTimeout

Spec == Init /\ [][Next]_vars

(***************************************************************************)
(* The dashboard with a stored history: the App is started over a stored   *)
(* value drawn from StoredValues, the queries come in two orders of the    *)
(* same categories, and the service (the revision App.tsx imports) answers *)
(* with few outcomes.                                                      *)
(***************************************************************************)
\* the length of the longest stored list
MaxStored == 16

OldEntry == Entry("Goa", <<"Spa">>, 20, 3)

CafeEntry == Entry("Pune", <<"Cafe">>, 20, 1)

StoredLists ==
    { <<>>,
      <<CafeEntry>>,
      [i \in 1..MaxStored |-> OldEntry],
      [i \in 1..MaxStored |-> IF i % 2 = 1 THEN OldEntry ELSE CafeEntry] }

StoredValues ==
    {Stored(k, <<>>) : k \in {"absent", "blank", "garbage", "scalar"}}
    \cup {Stored("json", StringifyHistory(l)) : l \in StoredLists}

QueryCities == {"", "Pune"}

QueryLists == {<<>>, <<"Cafe">>, <<"Cafe", "Gym">>, <<"Gym", "Cafe">>}

QueryOrigins == {Coords(28, 77)}

QueryOutcomes ==
    { Outcome("throw", FALSE, <<>>), Outcome("array", FALSE, <<>>),
      Outcome("array", FALSE, <<ItemA>>), Outcome("array", FALSE, <<ItemB>>) }

InitHistory ==
    /\ variant = "services"
    /\ apiKey \in {"absent", "key"}
    /\ userCoords = NoCoords
    /\ loading = FALSE
    /\ leads = <<>>
    /\ history = <<>>
    /\ storage \in StoredValues
    /\ lastAlert = "none"
    /\ pc = "boot"
    /\ req = NoReq
    /\ primIssued = 0
    /\ fbIssued = 0
    /\ primOut = NoOutcome
    /\ fbOut = NoOutcome
    /\ result = NoResult
    /\ pending = <<>>
    /\ timers = NoTimers
    /\ effectDue = FALSE
    /\ nPc = "off"
    /\ nIn = NoItem
    /\ nOut = NoLead

GeoSuccessH == Locate(QueryOrigins)

SearchSubmitH == Submit(QueryCities, QueryLists, Radii)

PrimaryResponseH == PrimaryResponds(QueryOutcomes)

FallbackResponseH == FallbackResponds(QueryOutcomes)

NextHistory ==
    \/ Mount
    \/ LoadingEffect
    \/ GeoSuccessH
    \/ SearchSubmitH
    \/ HistoryClick
    \/ PrimaryResponseH
    \/ FallbackResponseH
    \/ SearchResolved
    \/ SearchRejected
    \/ DisplayTimeout

SpecHistory == InitHistory /\ [][NextHistory]_vars

\* What runs once it can: React runs a pending effect, the continuation of
\* performSearch runs when the promise of findBusinessLeads has settled, and
\* the 500 ms timer fires.  That each request settles is the premise of the
\* liveness statement.
Fairness ==
    /\ WF_vars(LoadingEffect)
    /\ WF_vars(PrimaryResponseH)
    /\ WF_vars(FallbackResponseH)
    /\ WF_vars(SearchResolved)
    /\ WF_vars(SearchRejected)
    /\ WF_vars(DisplayTimeout)

\* the starts of SpecHistory with nothing stored or one entry stored
InitLive ==
    /\ InitHistory
    /\ storage \in {NoStorage, Stored("json", StringifyHistory(<<CafeEntry>>))}

SpecLive == InitLive /\ [][NextHistory]_vars /\ Fairness

(***************************************************************************)
(* The map callbacks on one record: a record with a phone drawn from       *)
(* PhoneValues goes through the primary callback or the fallback callback  *)
(* of the revision.                                                        *)
(***************************************************************************)
PhoneStrings ==
    { <<>>, <<" ", " ">>, S_null, <<"N", "A">>, S_n_a, S_none, S_undefined,
      S_not_available, S_not_found, S_missing, S_hidden,
      <<"H", "i", "d", "d", "e", "n">>,
      S_12345, <<"9", "8", "7", "6", "5", "4">>,
      <<"1", "1", "1", "1", "1", "1", "1">>,
      <<"9", "8", "7", "6", "5", "4", "3">>,
      <<"9", "8", "7", "6", "5", "4", "3", "2">>,
      S_0000000000, S_1234567890, S_9876543210,
      <<"1", "2", "3", "-", "4", "5", "6", "-", "7", "8", "9", "0">>,
      P_plain, <<" ">> \o P_plain \o <<" ">>,
      <<"9", "0", "0", "0", "0", "0", "0", "1", "2", "3">>,
      <<"9", "8", "1", "2", "3", "4", "5", "6", "7", "8">>,
      <<"(", "0", "2", "0", ")", " ", "2", "6", "1", "2", "-", "7", "3",
        "9", "4">> }

PhoneValues ==
    {JsUndef, JsNull, JsNum(0), JsNum(9876543)}
    \cup {JsStr(cs) : cs \in PhoneStrings}

PhoneItem(phone) ==
    RawObj(JsUndef, Ch("A"), Ch("X"), phone, JsNum(18), JsNum(73), JsUndef,
           JsUndef, JsUndef)

InitNorm ==
    /\ variant \in Variants
    /\ apiKey = "key"
    /\ userCoords = NoCoords
    /\ loading = FALSE
    /\ leads = <<>>
    /\ history = <<>>
    /\ storage = NoStorage
    /\ lastAlert = "none"
    /\ pc = "idle"
    /\ req = NoReq
    /\ primIssued = 0
    /\ fbIssued = 0
    /\ primOut = NoOutcome
    /\ fbOut = NoOutcome
    /\ result = NoResult
    /\ pending = <<>>
    /\ timers = NoTimers
    /\ effectDue = FALSE
    /\ nPc = "raw"
    /\ \E phone \in PhoneValues, index \in 0..1, now \in Clock :
          nIn = [item |-> PhoneItem(phone), index |-> index, now |-> now]
    /\ nOut = NoLead

app == <<variant, apiKey, userCoords, loading, leads, history, storage,
         lastAlert, pc, req, primIssued, fbIssued, primOut, fbOut, result,
         pending, timers, effectDue>>

\* the callback of results.map in findBusinessLeads
NormalizePrimary ==
    /\ nPc = "raw"
    /\ IF ItemThrows(nIn.item)
       THEN nPc' = "primary_threw" /\ UNCHANGED nOut
       ELSE /\ nPc' = "primary"
            /\ nOut' = WithMapsUrl(
                          PrimaryLead(variant, nIn.item, nIn.index, nIn.now),
                          PrimaryMapsUrl(variant, nIn.item))
    /\ UNCHANGED <<app, nIn>>

\* the callback of items.map in quickFallback
NormalizeFallback ==
    /\ nPc = "raw"
    /\ IF FallbackItemThrows(variant, nIn.item)
       THEN nPc' = "fallback_threw" /\ UNCHANGED nOut
       ELSE /\ nPc' = "fallback"
            /\ nOut' = WithMapsUrl(
                          FallbackLead(variant, nIn.item, nIn.index, nIn.now),
                          FallbackMapsUrl(variant, nIn.item))
    /\ UNCHANGED <<app, nIn>>

NextNorm == NormalizePrimary \/ NormalizeFallback

SpecNorm == InitNorm /\ [][NextNorm]_vars

(***************************************************************************)
(* SpecFields: one raw record, its fields drawn from what JSON.parse can   *)
(* put there, through the primary or the fallback callback                 *)
(***************************************************************************)
S_A_B == <<"A", " ", "B">>

S_18 == <<"1", "8">>

S_ab == <<"a", "b">>

\* name: absent, "", "A B", the number 7
NameValues == {JsUndef, JsStr(<<>>), JsStr(S_A_B), JsNum(7)}

\* address: absent, null, "X/1"
AddressValues == {JsUndef, JsNull, JsStr(<<"X", "/", "1">>)}

\* lat: absent, null, 18, 0, "18", "ab", true, {}
LatValues ==
    {JsUndef, JsNull, JsNum(18), JsNum(0), JsStr(S_18), JsStr(S_ab),
     JsBool(1), JsObj}

\* lng: absent, 73, "18"
LngValues == {JsUndef, JsNum(73), JsStr(S_18)}

\* rating: absent, null, 0, 4, 7, -1, "4", true, {}
RatingValues ==
    {JsUndef, JsNull, JsNum(0), JsNum(4), JsNum(7), JsNum(-1),
     JsStr(<<"4">>), JsBool(1), JsObj}

\* mapsUrl: absent, "u"
MapsUrlValues == {JsUndef, Ch("u")}

FieldItems ==
    {RawNull, RawPrim}
    \cup { RawObj(JsUndef, name, address, JsUndef, lat, lng, JsUndef, rating,
                  mapsUrl) :
             name \in NameValues, address \in AddressValues,
             lat \in LatValues, lng \in LngValues, rating \in RatingValues,
             mapsUrl \in MapsUrlValues }

InitFields ==
    /\ variant \in Variants
    /\ apiKey = "key"
    /\ userCoords = NoCoords
    /\ loading = FALSE
    /\ leads = <<>>
    /\ history = <<>>
    /\ storage = NoStorage
    /\ lastAlert = "none"
    /\ pc = "idle"
    /\ req = NoReq
    /\ primIssued = 0
    /\ fbIssued = 0
    /\ primOut = NoOutcome
    /\ fbOut = NoOutcome
    /\ result = NoResult
    /\ pending = <<>>
    /\ timers = NoTimers
    /\ effectDue = FALSE
    /\ nPc = "raw"
    /\ \E item \in FieldItems :
          nIn = [item |-> item, index |-> 0, now |-> 1]
    /\ nOut = NoLead

SpecFields == InitFields /\ [][NextNorm]_vars

(***************************************************************************)
(* The phone plausibility filter as the specification states it            *)
(***************************************************************************)
NullMarkers ==
    {<<>>, S_null, S_na, S_n_a, S_none, S_undefined, S_not_available,
     S_not_found, S_missing, S_hidden}

CanonicalPlaceholders == {S_1234567890, S_0000000000}

Plausible(v) ==
    /\ v.t = "str"
    /\ Len(DigitsOf(v.s)) >= 7
    /\ ~RepeatedChar(DigitsOf(v.s))
    /\ DigitsOf(v.s) \notin CanonicalPlaceholders
    /\ ToLower(Trim(v.s)) \notin NullMarkers

Settled == pc = "settled"

Returned == Settled /\ result.status = "resolved"

(***************************************************************************)
(* Claims                                                                  *)
(***************************************************************************)
\* C1: when no credential is configured (absent, empty or "undefined"), the
\* call rejects, and neither the primary nor the fallback request is ever
\* issued.  A rejection by the client constructor counts as the
\* missing-credential rejection.
C1_MissingCredentialRejects ==
    KeyMissing(apiKey) =>
        /\ primIssued = 0
        /\ fbIssued = 0
        /\ Settled => result.status = "rejected"

\* C2: when the primary request fails with a non-credential error (it
\* throws, the text is empty, the text is not JSON) and the fallback returns
\* a JSON array of n objects, the call resolves with exactly n leads.  Stated
\* for a configured credential and an error message without the marker.
C2_FallbackDeliversAll ==
    ( /\ Settled
      /\ ~KeyMissing(apiKey)
      /\ primOut.kind \in {"throw", "empty", "malformed"}
      /\ ~primOut.marker
      /\ fbOut.kind = "array"
      /\ fbOut.objects )
    => /\ result.status = "resolved"
       /\ Len(result.leads) = fbOut.n

\* C3: with a credential configured the call never rejects, whatever the
\* primary and the fallback produce; when both fail it resolves with the
\* empty sequence.
C3_NeverRejectsWithCredential ==
    (~KeyMissing(apiKey) /\ Settled)
    => /\ result.status = "resolved"
       /\ (fbIssued = 1 /\ fbOut.kind \in {"throw", "malformed", "nonarray"})
            => result.leads = <<>>

\* C4: every lead returned, on the primary or on the fallback path, has a
\* phone that is null or passes the plausibility filter (stated for a
\* configured credential).
C4_ReturnedPhonesPlausible ==
    (Returned /\ ~KeyMissing(apiKey)) =>
        \A i \in 1..Len(result.leads) :
            \/ result.leads[i].phone = JsNull
            \/ Plausible(result.leads[i].phone)

\* C5: a raw phone string with fewer than 7 digits, or whose digits are one
\* digit repeated, is normalized to null.
C5_ShortOrRepeatedIsNull ==
    ( /\ nPc = "primary"
      /\ nIn.item.phone.t = "str"
      /\ \/ Len(DigitsOf(nIn.item.phone.s)) < 7
         \/ RepeatedChar(DigitsOf(nIn.item.phone.s)) )
    => nOut.phone = JsNull

\* C6: a raw phone string holding a plausible 10-digit number is normalized
\* to the trimmed original string, formatting unchanged, never to null.
C6_PlausibleTenDigitsKept ==
    ( /\ nPc = "primary"
      /\ Plausible(nIn.item.phone)
      /\ Len(DigitsOf(nIn.item.phone.s)) = 10 )
    => nOut.phone = JsStr(Trim(nIn.item.phone.s))

\* C7: a raw phone that is missing, null, not a string, a null-marker
\* (lowercased), or whose digits are a canonical placeholder, is normalized
\* to null.
C7_MissingOrMarkerIsNull ==
    ( /\ nPc = "primary"
      /\ \/ nIn.item.phone.t # "str"
         \/ ToLower(nIn.item.phone.s) \in NullMarkers
         \/ DigitsOf(nIn.item.phone.s) \in CanonicalPlaceholders )
    => nOut.phone = JsNull

\* C8: the ids of the leads returned by one call are pairwise distinct,
\* whatever ids the raw records carry and whatever the clock returns.
C8_IdsDistinct ==
    Returned =>
        \A i, j \in 1..Len(result.leads) :
            i # j => result.leads[i].id # result.leads[j].id

\* C8 witness: a fallback batch of two leads has been returned
C8_Witness ==
    /\ Returned
    /\ fbIssued = 1
    /\ Len(result.leads) = 2
    /\ fbOut.objects

\* C9: when the search ran without a user origin, every lead of the list
\* shown has no distance (null; an absent field is let pass here).  Stated
\* for a configured credential.
C9_NoOriginNoDistance ==
    (pc = "idle" /\ ~req.coords.has /\ ~KeyMissing(apiKey))
    => \A i \in 1..Len(leads) : leads[i].distance.t \in {"null", "undef"}

\* C10: when the search ran with a user origin, every lead shown whose lat
\* or lng is 0 has distance null, and every lead whose lat and lng are
\* non-zero numbers has a numeric distance.  Stated for a configured
\* credential.
C10_DistanceByCoordinates ==
    (pc = "idle" /\ req.coords.has /\ ~KeyMissing(apiKey))
    => \A i \in 1..Len(leads) :
          /\ (leads[i].lat = JsNum(0) \/ leads[i].lng = JsNum(0))
                => leads[i].distance = JsNull
          /\ ( /\ leads[i].lat.t = "num" /\ leads[i].lat.n # 0
               /\ leads[i].lng.t = "num" /\ leads[i].lng.n # 0 )
                => leads[i].distance.t = "num"

(***************************************************************************)
(* The history store                                                       *)
(***************************************************************************)
\* two entries of the same city and the same categories in the same order
SameKey(g, h) == g.city = h.city /\ g.categories = h.categories

NoDuplicateQuery(hs) ==
    \A i, j \in 1..Len(hs) : i # j => ~SameKey(hs[i], hs[j])

\* the step of performSearch that records the search in the history
RecordStep ==
    /\ pc = "settled"
    /\ pc' = "delay"
    /\ result.status = "resolved"
    /\ Len(result.leads) > 0

\* C11: a history without two entries of the same city and the same
\* categories in the same order stays so at every step after the start, so
\* that from the empty history no sequence of searches produces such a
\* pair; the record puts the entry of the search in front, and an entry of
\* another key (the same city with the categories in another order is
\* another key) stays in the list as long as the list is not cut.
C11_OneEntryPerQuery ==
    [][ /\ (pc # "boot" /\ NoDuplicateQuery(history))
              => NoDuplicateQuery(history')
        /\ RecordStep =>
             /\ history'[1].city = req.city
             /\ history'[1].categories = req.categories
             /\ \A i \in 1..Len(history) :
                   ( /\ i <= HistoryKeep
                     /\ \/ history[i].city # req.city
                        \/ history[i].categories # req.categories )
                   => \E j \in 2..Len(history') : history'[j] = history[i]
      ]_vars

\* C11 witness: two searches of Pune, the same two categories in the two
\* orders, have been recorded from the empty history
C11_Witness ==
    /\ pc = "delay"
    /\ history = << Entry("Pune", <<"Gym", "Cafe">>, 20, 1),
                    Entry("Pune", <<"Cafe", "Gym">>, 20, 1) >>

\* C12: after every record in the history the list has at most 15 entries
\* (the new one and 14 kept), whatever it held before, a list loaded from
\* the storage that is longer than 15 included.
C12_AtMostFifteenAfterRecord ==
    [][RecordStep => Len(history') <= HistoryKeep + 1]_vars

\* C12 witness: a search has been recorded over a stored list of more than
\* 15 entries, and the list was cut
C12_Witness ==
    /\ pc = "delay"
    /\ Len(history) = HistoryKeep + 1
    /\ history[1].city = "Pune"
    /\ history[2] = OldEntry

\* C13: the history changes only when a search that resolved with at least
\* one lead is recorded, and then the entry in front is that search with
\* its count; a search that resolves with no lead leaves the history and the
\* storage as they are, and so does a search that is rejected.
C13_EntryOnlyForLeads ==
    [][ /\ (pc # "boot" /\ history' # history)
              => /\ RecordStep
                 /\ history'[1] = Entry(req.city, req.categories, req.radius,
                                        Len(result.leads))
        /\ (pc = "settled" /\ pc' # pc /\ ~RecordStep)
              => (history' = history /\ storage' = storage)
      ]_vars

\* C13 witness: a search of Pune for Gym and Cafe has resolved with no lead
\* and the history still is the one entry it held
C13_Witness ==
    /\ pc = "delay"
    /\ pending = <<>>
    /\ req.categories = <<"Gym", "Cafe">>
    /\ history = <<CafeEntry>>
    /\ storage = Stored("json", StringifyHistory(<<CafeEntry>>))

\* C14: the load of the history at the start yields the stored list when
\* the stored value is the JSON text of a list, and the empty list when the
\* value is absent, is no JSON, or is the JSON text of something that is no
\* list; the App is up afterwards and no alert was shown.
C14_LoadYieldsListOrEmpty ==
    [][ pc = "boot" =>
          /\ pc' = "idle"
          /\ history' = IF storage.kind = "json"
                        THEN ParseHistory(storage.value) ELSE <<>>
          /\ lastAlert' = "none"
      ]_vars

(***************************************************************************)
(* One search at a time                                                    *)
(***************************************************************************)
\* a search is in flight from performSearch to its setTimeout callback or
\* its catch block
InFlight == pc \in {"primary", "fallback", "settled", "delay"}

\* performSearch is the only step that leaves loading true and makes the
\* effect on [loading] due
StartsSearch == loading' /\ effectDue' /\ ~effectDue

\* C15: at most one search is in flight: loading is true as long as a
\* search is in flight, and a retrieval call starts only in a state where
\* loading is false and no search is in flight.
C15_OneSearchInFlight ==
    [][ /\ InFlight => loading
        /\ StartsSearch => (~loading /\ ~InFlight)
      ]_vars

\* C15 witness: after a search of Pune for Cafe and Gym was recorded, the
\* retrieval call of the next search is out
C15_Witness ==
    /\ pc = "primary"
    /\ loading
    /\ Len(history) > 0
    /\ history[1] = Entry("Pune", <<"Cafe", "Gym">>, 20, 1)
    /\ req.categories = <<"Gym", "Cafe">>

(***************************************************************************)
(* The interval timers                                                     *)
(***************************************************************************)
TimerActive == timers.ticker > 0 \/ timers.progress > 0

AtMostOneOfEach == timers.ticker <= 1 /\ timers.progress <= 1

\* C16 as stated: in every state where loading is false no interval timer
\* is active, and at most one ticker timer and one progress timer exist at
\* any time.
C16_NoTimerWhileNotLoading ==
    /\ ~loading => ~TimerActive
    /\ AtMostOneOfEach

\* C16, amended: the timers are stopped by the effect on [loading], which
\* runs after setLoading(false): in every state where loading is false and
\* that effect is not due, no interval timer is active; and at most one
\* ticker timer and one progress timer exist at any time.
C16_NoTimerAfterEffect ==
    /\ (~loading /\ ~effectDue) => ~TimerActive
    /\ AtMostOneOfEach

\* C16 witness: a search has delivered its leads, the effect has run after
\* it and the timers it had started are stopped
C16_Witness ==
    /\ pc = "idle"
    /\ ~loading
    /\ ~effectDue
    /\ Len(leads) > 0
    /\ timers = NoTimers

(***************************************************************************)
(* The list shown                                                          *)
(***************************************************************************)
\* lead a is lead b but for the distance
SameButDistance(a, b) == [a EXCEPT !.distance = JsNull]
                             = [b EXCEPT !.distance = JsNull]

\* C17: the list shown is emptied when a search starts and stays empty
\* while the search is in flight; when the call resolves, the list held for
\* display is the list returned, lead by lead, with nothing changed but the
\* distance, and the display step shows exactly that list; when the call is
\* rejected the list shown stays empty.  So the list never holds a lead of
\* an earlier search.
C17_ListReplacedWholesale ==
    [][ /\ StartsSearch => leads' = <<>>
        /\ InFlight => leads = <<>>
        /\ (pc = "settled" /\ pc' = "delay") =>
              /\ Len(pending') = Len(result.leads)
              /\ \A i \in 1..Len(pending') :
                    SameButDistance(pending'[i], result.leads[i])
        /\ (pc = "delay" /\ pc' = "idle") => leads' = pending
        /\ (pc = "settled" /\ pc' = "idle") => leads' = <<>>
      ]_vars

\* C17 witness: two searches with leads have been recorded, and the list
\* shown is the one lead of the second
C17_Witness ==
    /\ pc = "idle"
    /\ Len(leads) = 1
    /\ leads[1].name = Ch("B")
    /\ history = << Entry("Pune", <<"Gym", "Cafe">>, 20, 1),
                    Entry("Pune", <<"Cafe", "Gym">>, 20, 1) >>

(***************************************************************************)
(* Failures shown to the user                                              *)
(***************************************************************************)
\* C18: when the call is rejected with the missing-credential error, the
\* user is shown that error's own message and not the generic search-failed
\* message, and no request was issued for the search.  Stated for the
\* revision part_001 of the service.
C18_CredentialFailureSurfaced ==
    [][ ( /\ variant = "part_001"
          /\ pc = "settled"
          /\ result.status = "rejected"
          /\ result.error = "API_KEY_MISSING"
          /\ pc' = "idle" )
        => /\ lastAlert' = "API_KEY_MISSING"
           /\ primIssued = 0
           /\ fbIssued = 0
      ]_vars

(***************************************************************************)
(* Response decoding                                                       *)
(***************************************************************************)
\* C19: when the text of the primary response is JSON but no array, the
\* fallback request is issued; and when the text of the fallback response
\* is JSON but no array, the call resolves with the empty sequence.  Stated
\* for the revision part_001 of the service and a configured credential.
C19_NonArrayGoesToFallback ==
    (variant = "part_001" /\ ~KeyMissing(apiKey) /\ Settled) =>
        /\ primOut.kind = "nonarray" => fbIssued = 1
        /\ (fbIssued = 1 /\ fbOut.kind = "nonarray")
              => result = Resolved(<<>>)

\* C20: when the text of the primary response is a JSON array of n records
\* inside a markdown fence, the call resolves with n leads and the fallback
\* request is not issued.  Stated for the revision under src/services and a
\* configured credential.
C20_FencedArrayDecoded ==
    ( /\ variant = "services"
      /\ ~KeyMissing(apiKey)
      /\ Settled
      /\ primOut.kind = "wrapped" )
    => /\ fbIssued = 0
       /\ result.status = "resolved"
       /\ Len(result.leads) = primOut.n


(***************************************************************************)
(* Normalisation of the raw records                                        *)
(***************************************************************************)
\* C21: normalisation has no failure mode and rejects no record: when the
\* primary response decodes to an array of n raw records, whatever they are
\* (null, not an object, every field missing), the call resolves from the
\* primary path with exactly n leads.  Stated for the revision in
\* src/services and a configured credential.
C21_OneLeadPerRawRecord ==
    ( /\ variant = "services"
      /\ Settled
      /\ ~KeyMissing(apiKey)
      /\ primOut.kind = "array" )
    => /\ fbIssued = 0
       /\ result.status = "resolved"
       /\ Len(result.leads) = primOut.n


Normalized == nPc \in {"primary", "fallback"}

\* the placeholders of src/services/businessService.ts lines 97-98
NamePlaceholder == JsStr(S_Unknown_Business)

AddressPlaceholder == JsStr(S_Address_unavailable)

\* C22: every lead, from the primary and from the fallback callback, has a
\* non-empty name and a non-empty address; an absent or empty raw name or
\* address is replaced by the placeholder.  Any truthy value counts as
\* non-empty.  Stated for the revision in src/services.
C22_NameAndAddressFilled ==
    (variant = "services" /\ Normalized)
    => /\ Truthy(nOut.name)
       /\ Truthy(nOut.address)
       /\ ~Truthy(nIn.item.name) => nOut.name = NamePlaceholder
       /\ ~Truthy(nIn.item.address) => nOut.address = AddressPlaceholder


\* the coordinate the specification gives a raw value: a number is itself, a
\* numeric string is its number, anything else is 0
CoordOf(raw) ==
    CASE raw.t = "num" -> raw
      [] raw.t = "str" /\ ToNumber(raw).t = "num" -> ToNumber(raw)
      [] OTHER -> JsNum(0)

\* C23: the latitude and the longitude of a lead, primary or fallback, are
\* numbers: the raw number, the number a numeric string spells, and 0 for
\* an absent, null or non-numeric raw value.  Stated for the revision in
\* src/services.
C23_CoordinatesAreNumbers ==
    (variant = "services" /\ Normalized)
    => /\ nOut.lat = CoordOf(nIn.item.lat)
       /\ nOut.lng = CoordOf(nIn.item.lng)


\* C24: the rating of a lead is the raw rating exactly when the raw rating is
\* number-typed (0, a negative number and a number above 5 included, none
\* clamped) and null for any other raw rating (absent, null, a string, a
\* boolean, an object).  Stated for the revision in src/services.
C24_RatingNumberOrNull ==
    (variant = "services" /\ Normalized)
    => nOut.rating =
          (IF IsNumberTyped(nIn.item.rating) THEN nIn.item.rating ELSE JsNull)


\* C25: the maps link of a lead, primary or fallback, in every revision, is
\* the fixed search prefix followed by the URL-encoding of the lead's own
\* name, a space and the lead's own address (each as a template string
\* renders it); a mapsUrl of the raw record never reaches the lead.
C25_MapsUrlFromNameAndAddress ==
    Normalized
    => /\ nOut.mapsUrl.t = "str"
       /\ nOut.mapsUrl.s =
             <<MapsPrefix>>
             \o EncodeURIComponent(TemplateStr(nOut.name) \o <<" ">>
                                   \o TemplateStr(nOut.address))
       /\ nOut.mapsUrl # nIn.item.mapsUrl

\* the fallback lead of {name: "A B", address: "X/1", mapsUrl: "u"} links to
\* ...query=A%20B%20X%2F1
C25_Witness ==
    /\ nPc = "fallback"
    /\ nIn.item.mapsUrl = Ch("u")
    /\ nIn.item.name = JsStr(S_A_B)
    /\ nIn.item.address = JsStr(<<"X", "/", "1">>)
    /\ nOut.mapsUrl.s =
          <<MapsPrefix, "A", "%", "2", "0", "B", "%", "2", "0", "X", "%",
            "2", "F", "1">>


(***************************************************************************)
(* The history and its persisted copy                                      *)
(***************************************************************************)
\* C26: once the App is up, what is persisted under the history key, read
\* as the load reads it (an absent, blank or unparsable value is the empty
\* list), is the history in memory, in every state, and after a record the
\* persisted text is the JSON text of the history in memory.
C26_PersistedEqualsMemory ==
    pc \notin {"boot", "crashed"}
    => /\ LoadHistory(storage).isList
       /\ LoadHistory(storage).list = history
       /\ (pc = "delay" /\ HasLeads(pending))
             => storage = Stored("json", StringifyHistory(history))

\* C26 witness: a search was recorded over a stored list of more than 15
\* entries; the cut list is in memory and in the storage
C26_Witness ==
    /\ pc = "delay"
    /\ HasLeads(pending)
    /\ Len(history) = HistoryKeep + 1
    /\ storage.kind = "json"
    /\ Len(storage.value) = HistoryKeep + 1
    /\ storage.value[1].resultCount = <<"1">>


(***************************************************************************)
(* The search from start to end                                            *)
(***************************************************************************)
\* C27: a submit with an empty city or with no category issues no request
\* and changes nothing: loading stays as it is (false, the button being
\* disabled otherwise), and the leads, the history, the storage and the
\* record of the call are unchanged.
C27_InvalidQueryChangesNothing ==
    [][ \A city \in QueryCities, categories \in QueryLists :
          ( /\ city = "" \/ categories = <<>>
            /\ Submit({city}, {categories}, Radii) )
          => /\ ~loading
             /\ UNCHANGED <<loading, leads, history, storage, pc, req,
                            primIssued, fbIssued, result, timers>>
      ]_vars

\* C27 witness: with one entry loaded from the storage, a submit with no
\* category was answered by the alert and no request was ever issued
C27_Witness ==
    /\ lastAlert = "select_category"
    /\ pc = "idle"
    /\ ~loading
    /\ req = NoReq
    /\ primIssued = 0
    /\ leads = <<>>
    /\ history = <<CafeEntry>>


C29_LoadingEventuallyCleared ==
    /\ loading ~> ~loading
    /\ [][ (loading /\ ~loading')
             => \/ pc = "delay"
                \/ pc = "settled" /\ result.status = "rejected" ]_vars

\* C29 witness: a search of Pune has resolved, the delay is over, its leads
\* are shown and loading is cleared
C29_Witness ==
    /\ pc = "idle"
    /\ ~loading
    /\ req.city = "Pune"
    /\ leads # <<>>
    /\ pending = <<>>
    /\ history # <<>>


\* C30: the step that handles a rejected retrieval call leaves the history
\* and the persisted history as they are, leaves the lead list empty, and
\* clears loading.
C30_RejectedSearchLeavesHistory ==
    [][ (pc = "settled" /\ result.status = "rejected" /\ pc' # pc)
          => /\ history' = history
             /\ storage' = storage
             /\ leads = <<>>
             /\ leads' = <<>>
             /\ ~loading' ]_vars

\* C30 witness: a search was rejected after an earlier one had been
\* recorded: the alert is up, nothing is listed, the entry is still there
C30_Witness ==
    /\ lastAlert = "search_failed"
    /\ pc = "idle"
    /\ ~loading
    /\ leads = <<>>
    /\ Len(history) = 1
    /\ storage = Stored("json", StringifyHistory(history))

====
